---- MODULE Spec2Model ----
(***************************************************************************)
(* The background task processor of async_processor.py: AsyncProcessor     *)
(* (task queue, `processing` and `results` stores, worker threads),        *)
(* the handlers it dispatches to (tts.generate_audio, video.generate_video)*)
(* and a caller polling get_task_status.                                   *)
(*                                                                         *)
(* Threads interleave between statements that touch shared state, so every *)
(* such statement of _worker, _cleanup_completed_tasks, _process_task and  *)
(* get_task_status is one step of the thread that runs it.                 *)
(***************************************************************************)
EXTENDS Integers, Sequences, FiniteSets, Bags, TLC

\* ---------------------------------------------------------------- bounds
\* submit_task calls in one run (foreground callers and the worker together)
MaxTasks == 3
\* worker threads alive at the same time
MaxThreads == 3
\* clock advances in one run
MaxTicks == 2
\* distinct addresses the allocator hands out for a call's kwargs dict
NumAddrs == 2
\* the largest max_retries a retry_with_backoff wrapper is built with
MaxRetries == 3
\* the largest initial_delay, in seconds
MaxDelay == 2
\* the most failures of a wrapped operation before it succeeds
MaxFails == 3

\* ------------------------------------------------------- program constants
\* self.max_concurrent_tasks
max_concurrent_tasks == 2
\* the retention window of _cleanup_completed_tasks, in seconds
Retention == 300
\* int(time.time() * 1000): the clock of the model counts milliseconds
MsPerSecond == 1000
\* Config.MIN_ARTICLE_LENGTH
MIN_ARTICLE_LENGTH == 30
\* the default timeout of tts.get_audio_result, in seconds
DefaultTimeout == 60

\* ------------------------------------------------------------- vocabulary
TaskTypes == {"tts", "video", "bogus"}

\* What a submitted payload can be, per task type.  For 'tts': the payload
\* generate_audio submits, a text of at least MIN_ARTICLE_LENGTH characters
\* with gender and language ("valid"), or a payload without the 'text' key
\* ("missing").  For 'video': all four keys present ("full") or one of them
\* absent ("missing").
Payloads(type) ==
    CASE type = "tts" -> {"valid", "missing"}
      [] type = "video" -> {"full", "missing"}
      [] OTHER -> {"none"}

Addrs == 1..NumAddrs

NoVal == "absent"
NoTime == -1
NoId == <<"", -1, 0>>
NoTask == [task_id |-> NoId, type |-> "", payload |-> ""]
\* an id no submit_task call ever returned
UnknownId == <<"tts", -1, 0>>

\* f"{task_type}_{int(time.time() * 1000)}_{id(kwargs)}"
\* (the two trailing fields are integers, so the string determines the triple)
MakeTaskId(task_type, ms, addr) == <<task_type, ms, addr>>

VARIABLES
    task_queue,     \* self.task_queue: the tasks put and not yet taken, in order
    results,        \* self.results: task id -> result dict
    processing,     \* self.processing: the dict, as its items in insertion order
    running,        \* self.running
    threads,        \* the threads running _worker: a bag of their positions and locals
    starters,       \* callers of start() past `if self.running` and before line 29
    now,            \* time.time(), in milliseconds
    ticks,          \* how often the clock advanced
    returned,       \* the ids submit_task returned so far, in order, with the caller
    poll,           \* the caller inside get_task_status, and what it returned last
    load,           \* the workload of the run: what the environment may do
    waiter,         \* the caller inside tts.get_audio_result
    audio,          \* the last call of tts.generate_audio by a foreground caller
    retry,          \* the call of a retry_with_backoff wrapper
    stats           \* the caller inside get_queue_stats, and what it returned last

\* the callers of the processor, which its own steps leave alone
callers == <<waiter, audio, retry, stats>>

vars == <<task_queue, results, processing, running, threads,
          starters, now, ticks, returned, poll, load, callers>>

\* ------------------------------------------------- the `processing` dict
HasKey(d, k) == \E i \in 1..Len(d) : d[i].task_id = k
IndexOf(d, k) == CHOOSE i \in 1..Len(d) : d[i].task_id = k
Entry(d, k) == d[IndexOf(d, k)]
Keys(d) == {d[i].task_id : i \in 1..Len(d)}
\* d[k] = e: an existing key keeps its place, a new key goes last
SetItem(d, k, e) ==
    IF HasKey(d, k) THEN [d EXCEPT ![IndexOf(d, k)] = e] ELSE Append(d, e)
\* del d[k]
DelItem(d, k) == SelectSeq(d, LAMBDA e : e.task_id # k)

\* dict `results` as a function: results[k] = r and del results[k]
Put(f, k, r) == [x \in DOMAIN f \cup {k} |-> IF x = k THEN r ELSE f[x]]
Drop(f, k) == [x \in DOMAIN f \ {k} |-> f[x]]

\* the dict _process_task stores at line 84
NewEntry(task, t) ==
    [task_id |-> task.task_id, status |-> "processing", started_at |-> t,
     completed_at |-> NoTime, error |-> NoVal, task_type |-> task.type]

\* {'success': True, 'result': result} and {'success': False, 'error': str(e)}
SuccessResult(value) == [success |-> TRUE, result |-> value, error |-> NoVal]
FailureResult(msg) == [success |-> FALSE, result |-> NoVal, error |-> msg]

\* the status and the presence of a result the stores d and r hold for k
Snapshot(d, r, k) ==
    <<IF HasKey(d, k) THEN Entry(d, k).status ELSE "not_found", k \in DOMAIN r>>
\* a write to the stores, seen from the call of get_task_status in progress
Observe(p, d, r) ==
    IF p.pc = "idle" THEN p
    ELSE [p EXCEPT !.held = @ \cup {Snapshot(d, r, p.task_id)}]

\* AsyncProcessor._get_active_count
GetActiveCount(d) ==
    Cardinality({i \in 1..Len(d) : d[i].status = "processing"})

\* ------------------------------------------------------------------ Init
\* The workloads explored: how many submit_task calls, worker threads and
\* clock advances the environment makes, whether a caller polls
\* get_task_status, whether a caller goes through tts.generate_audio
\* and tts.get_audio_result, and whether a caller reads get_queue_stats.
Workloads ==
    { [tasks |-> MaxTasks, threads |-> MaxThreads, ticks |-> 0, polls |-> FALSE,
       waits |-> FALSE, stats |-> FALSE, types |-> {"tts", "bogus"}],
      [tasks |-> MaxTasks - 1, threads |-> MaxThreads - 1, ticks |-> 0,
       polls |-> FALSE, waits |-> FALSE, stats |-> FALSE, types |-> TaskTypes],
      [tasks |-> MaxTasks, threads |-> 1, ticks |-> 0, polls |-> FALSE,
       waits |-> FALSE, stats |-> FALSE, types |-> TaskTypes],
      [tasks |-> MaxTasks - 1, threads |-> 1, ticks |-> MaxTicks, polls |-> FALSE,
       waits |-> FALSE, stats |-> FALSE, types |-> TaskTypes],
      [tasks |-> MaxTasks - 1, threads |-> 1, ticks |-> 0, polls |-> TRUE,
       waits |-> FALSE, stats |-> FALSE, types |-> TaskTypes],
      [tasks |-> MaxTasks - 2, threads |-> 1, ticks |-> MaxTicks, polls |-> TRUE,
       waits |-> FALSE, stats |-> FALSE, types |-> TaskTypes],
      [tasks |-> MaxTasks - 1, threads |-> 1, ticks |-> MaxTicks - 1, polls |-> FALSE,
       waits |-> TRUE, stats |-> FALSE, types |-> {}],
      [tasks |-> MaxTasks - 1, threads |-> MaxThreads - 1, ticks |-> MaxTicks,
       polls |-> FALSE, waits |-> FALSE, stats |-> FALSE, types |-> {"video"}],
      [tasks |-> MaxTasks - 2, threads |-> 1, ticks |-> MaxTicks - 1,
       polls |-> FALSE, waits |-> FALSE, stats |-> TRUE, types |-> TaskTypes] }

\* a thread at the top of `while self.running`, its locals unset
LoopThread == [pc |-> "loop", task |-> NoTask, to_remove |-> <<>>, out |-> NoVal,
               size |-> 0]
\* `obj` tells which dict a call hands back: "copy", a new dict with the items
\* of the stored entry, or "stored", the dict the store holds
NoRet == [task_id |-> NoId, status |-> "none", has_result |-> FALSE,
          result |-> FailureResult(NoVal), torn |-> FALSE, obj |-> "none"]
\* `held` is not a variable of the program: it collects, while a call of
\* get_task_status runs, every pair of status and presence of a result the
\* stores held for the id of the call
IdlePoll == [pc |-> "idle", task_id |-> NoId, status |-> "none", held |-> {},
             obj |-> "none", ret |-> NoRet]
\* nobody is inside get_audio_result; generate_audio has not been called
IdleWaiter == [pc |-> "idle", task_id |-> NoId, start_time |-> 0,
               branch |-> "none", ret |-> NoVal]
NoAudio == [called |-> FALSE, text |-> [len |-> 0, stripped |-> 0], ret |-> NoId]

\* nobody is inside get_queue_stats, and no call has returned
NoStats == [kind |-> "none", queue_size |-> 0, active_tasks |-> 0,
            total_tasks |-> 0, max_concurrent |-> 0]
IdleStats == [pc |-> "idle", queue_size |-> 0, active_tasks |-> 0, size |-> 0,
              ret |-> NoStats]

\* no retry_with_backoff wrapper has been called
NoRetry == [pc |-> "none", max_retries |-> 0, initial_delay |-> 0,
            op |-> [always |-> FALSE, fails |-> 0], attempt |-> 0, delay |-> 0,
            calls |-> 0, delays |-> <<>>, e |-> 0,
            ret |-> [kind |-> "none", value |-> 0]]

\* the processor after __init__, with no caller in tts.py yet
ProcessorInit(workloads) ==
    /\ task_queue = <<>>
    /\ results = <<>>
    /\ processing = <<>>
    /\ running = FALSE
    /\ threads = EmptyBag
    /\ starters = 0
    /\ now = 0
    /\ ticks = 0
    /\ returned = <<>>
    /\ poll = IdlePoll
    /\ load \in workloads
    /\ waiter = IdleWaiter
    /\ audio = NoAudio
    /\ stats = IdleStats

InitWith(workloads) == ProcessorInit(workloads) /\ retry = NoRetry

Init == InitWith(Workloads)


\* ---------------------------------------------------------- thread locals
\* Worker threads have no identity the program reads (worker_thread is only
\* joined, which changes nothing), so they are kept as a bag of records.
\* thread t takes a step and becomes t2
Step(t, t2) == (threads (-) SetToBag({t})) (+) SetToBag({t2})
Goto(t, pc) == Step(t, [t EXCEPT !.pc = pc])
\* back to the top of `while self.running` with the locals of the pass dropped
\* (a normal end of the pass, `continue`, or the handler at line 59)
ToLoop(t) == Step(t, LoopThread)
Live == BagCardinality(threads)

\* ------------------------------------------------ AsyncProcessor.submit_task
\* line 134: the id is built from the type, the millisecond clock and the
\* address of the call's kwargs dict
SubmitTaskId(task_type, addr) == MakeTaskId(task_type, now, addr)

\* Addresses are interchangeable: a call gets an address used before or
\* the least one never used.
UsedAddrs == {returned[i].task_id[3] : i \in 1..Len(returned)}
FirstUse(addr) ==
    addr \in UsedAddrs \/ \A a \in Addrs \ UsedAddrs : addr <= a

\* lines 136-142: the task dict that is put on the queue
SubmittedTask(task_type, payload, addr) ==
    [task_id |-> SubmitTaskId(task_type, addr), type |-> task_type,
     payload |-> payload]

\* A foreground caller runs submit_task(task_type, **payload); addr is the
\* address the allocator gave this call's kwargs dict (any address not held
\* by a live object: the dict of an earlier call is freed when it returns).
SubmitTask(task_type, payload, addr) ==
    /\ Len(returned) < load.tasks
    /\ FirstUse(addr)
    /\ task_queue' = Append(task_queue, SubmittedTask(task_type, payload, addr))
    /\ returned' = Append(returned,
                     [task_id |-> SubmitTaskId(task_type, addr), by |-> "caller"])
    /\ UNCHANGED <<results, processing, running, threads,
                   starters, now, ticks, poll, load, callers>>

\* ------------------------------------------------- AsyncProcessor.start/stop
\* line 26: a caller of start() reads self.running as False and goes on
StartCheck ==
    /\ ~running
    /\ starters + Live < load.threads
    /\ starters' = starters + 1
    /\ UNCHANGED <<task_queue, results, processing, running,
                   threads, now, ticks, returned, poll, load, callers>>

\* lines 29-31: that caller sets running and starts a new thread on _worker
StartThread ==
    /\ starters > 0
    /\ threads' = threads (+) SetToBag({LoopThread})
    /\ running' = TRUE
    /\ starters' = starters - 1
    /\ UNCHANGED <<task_queue, results, processing, now, ticks, returned, poll, load, callers>>

\* lines 36-38: running is cleared; the join returns when the thread has
\* ended or after 5 seconds, whichever is first, and changes nothing
Stop ==
    /\ running
    /\ running' = FALSE
    /\ UNCHANGED <<task_queue, results, processing, threads,
                   starters, now, ticks, returned, poll, load, callers>>

\* ------------------------------------------------------------------ clock
TickSteps == {1, Retention * MsPerSecond}

Tick(d) ==
    /\ ticks < load.ticks
    /\ now' = now + d
    /\ ticks' = ticks + 1
    /\ UNCHANGED <<task_queue, results, processing, running,
                   threads, starters, returned, poll, load, callers>>


\* ------------------------------------------------- AsyncProcessor._worker
\* line 43: `while self.running`; a thread that reads False ends
WorkerLoop(t) ==
    /\ t.pc = "loop"
    /\ threads' = IF running THEN Goto(t, "scan")
                  ELSE threads (-) SetToBag({t})
    /\ UNCHANGED <<task_queue, results, processing, running,
                   starters, now, ticks, returned, poll, load, callers>>

\* --------------------------- AsyncProcessor._cleanup_completed_tasks
\* line 73: the test that puts a task on to_remove
ShouldRemove(e, t) ==
    e.status = "completed" /\ t - e.completed_at > Retention * MsPerSecond

\* line 73 raises KeyError on an entry that is 'completed' and has no
\* 'completed_at' yet (another thread between lines 99 and 100)
ScanRaises(d) ==
    \E i \in 1..Len(d) : d[i].status = "completed" /\ d[i].completed_at = NoTime

\* lines 70-74: the ids to remove, in the order of the dict
ToRemove(d, t) ==
    LET hit == SelectSeq(d, LAMBDA e : ShouldRemove(e, t))
    IN  [i \in 1..Len(hit) |-> hit[i].task_id]

\* line 72: the iteration over self.processing.items() begins; the iterator
\* remembers the size of the dict
WorkerScanBegin(t) ==
    /\ t.pc = "scan"
    /\ threads' = Step(t, [t EXCEPT !.pc = "scanning", !.size = Len(processing)])
    /\ UNCHANGED <<task_queue, results, processing, running,
                   starters, now, ticks, returned, poll, load, callers>>

\* lines 69-74 run to their end.  The iteration raises RuntimeError when
\* another thread has changed the size of the dict since it began; an
\* exception ends the pass at line 59.
WorkerScan(t) ==
    /\ t.pc = "scanning"
    /\ threads' =
         IF Len(processing) # t.size \/ ScanRaises(processing) THEN ToLoop(t)
         ELSE IF ToRemove(processing, now) = <<>>
              THEN Step(t, [t EXCEPT !.pc = "check", !.size = 0])
         ELSE Step(t, [t EXCEPT !.pc = "del_p", !.size = 0,
                                !.to_remove = ToRemove(processing, now)])
    /\ UNCHANGED <<task_queue, results, processing, running,
                   starters, now, ticks, returned, poll, load, callers>>

\* line 77: del self.processing[task_id]; KeyError when another thread has
\* removed the key since the scan
WorkerDelProcessing(t) ==
    /\ t.pc = "del_p"
    /\ LET k == Head(t.to_remove) IN
         IF HasKey(processing, k)
         THEN /\ processing' = DelItem(processing, k)
              /\ threads' = Goto(t, "del_r")
         ELSE /\ threads' = ToLoop(t)
              /\ UNCHANGED processing
    /\ UNCHANGED <<task_queue, results, running, starters, now,
                   ticks, returned, load, callers>>
    /\ poll' = Observe(poll, processing', results')

\* after one id: the next id of to_remove, or on to line 49
AfterRemoval(t) ==
    IF Len(t.to_remove) > 1
    THEN Step(t, [t EXCEPT !.pc = "del_p", !.to_remove = Tail(t.to_remove)])
    ELSE Step(t, [t EXCEPT !.pc = "check", !.to_remove = <<>>])

\* line 78: if task_id in self.results
WorkerTestResults(t) ==
    /\ t.pc = "del_r"
    /\ threads' = IF Head(t.to_remove) \in DOMAIN results
                  THEN Goto(t, "del_r2") ELSE AfterRemoval(t)
    /\ UNCHANGED <<task_queue, results, processing, running,
                   starters, now, ticks, returned, poll, load, callers>>

\* line 79: del self.results[task_id]
WorkerDelResults(t) ==
    /\ t.pc = "del_r2"
    /\ LET k == Head(t.to_remove) IN
         IF k \in DOMAIN results
         THEN /\ results' = Drop(results, k)
              /\ threads' = AfterRemoval(t)
         ELSE /\ threads' = ToLoop(t)
              /\ UNCHANGED results
    /\ UNCHANGED <<task_queue, processing, running, starters,
                   now, ticks, returned, load, callers>>
    /\ poll' = Observe(poll, processing', results')

\* line 49: below the limit the thread goes on to take a task, at the limit
\* it sleeps (line 57) and starts the next pass
UnderLimit(d) == GetActiveCount(d) < max_concurrent_tasks

WorkerCheck(t) ==
    /\ t.pc = "check"
    /\ threads' = IF UnderLimit(processing) THEN Goto(t, "get") ELSE ToLoop(t)
    /\ UNCHANGED <<task_queue, results, processing, running,
                   starters, now, ticks, returned, poll, load, callers>>

\* a get that returns the oldest task and leaves it in the queue
WorkerGet_Peek(t) ==
    /\ t.pc = "get"
    /\ threads' = IF task_queue = <<>> THEN ToLoop(t)
                  ELSE Step(t, [t EXCEPT !.pc = "start",
                                         !.task = Head(task_queue)])
    /\ UNCHANGED <<task_queue, results, processing, running, starters, now,
                   ticks, returned, poll, load, callers>>

\* line 51: task_queue.get(timeout=1) returns the oldest task, or raises
\* queue.Empty after a second with nothing queued (line 55: continue)
WorkerGet(t) ==
    /\ t.pc = "get"
    /\ IF task_queue = <<>>
       THEN /\ threads' = ToLoop(t)
            /\ UNCHANGED task_queue
       ELSE /\ threads' = Step(t, [t EXCEPT !.pc = "start",
                                            !.task = Head(task_queue)])
            /\ task_queue' = Tail(task_queue)
    /\ UNCHANGED <<results, processing, running, starters, now,
                   ticks, returned, poll, load, callers>>


\* -------------------------------------------- AsyncProcessor._process_task
\* lines 83-88: the entry of the task is stored, over an entry of the same id
WorkerStart(t) ==
    /\ t.pc = "start"
    /\ processing' = SetItem(processing, t.task.task_id,
                             NewEntry(t.task, now))
    /\ threads' = Goto(t, "handler")
    /\ UNCHANGED <<task_queue, results, running, starters, now,
                   ticks, returned, load, callers>>
    /\ poll' = Observe(poll, processing', results')

\* tts.generate_audio, lines 204-225: it validates the text and, for a valid
\* one, submits a 'tts' task and returns its id; otherwise it returns None
GenerateAudioSubmits(text) == text = "valid"

\* _process_tts_task: task['text'] raises KeyError on a payload without the
\* key; generate_audio returns a str or None, never a coroutine, so
\* asyncio.run raises ValueError ("a coroutine was expected")
TtsOutcomes(payload) ==
    IF payload = "missing" THEN {"KeyError"} ELSE {"ValueError"}

\* _process_video_task: KeyError on a payload without one of its keys;
\* video.generate_video returns the path of the video, or None on every
\* failure (it catches every exception itself)
VideoOutcomes(payload) ==
    IF payload = "missing" THEN {"KeyError"} ELSE {"path", "None"}

\* the dispatch without its else branch: an unknown type yields None
HandlerOutcomes_NoElse(task) ==
    CASE task.type = "tts" -> TtsOutcomes(task.payload)
      [] task.type = "video" -> VideoOutcomes(task.payload)
      [] OTHER -> {"None"}

\* lines 91-96: the dispatch on task['type']
HandlerOutcomes(task) ==
    CASE task.type = "tts" -> TtsOutcomes(task.payload)
      [] task.type = "video" -> VideoOutcomes(task.payload)
      [] OTHER -> {"UnknownType"}

\* the handler returned (a value, possibly None) rather than raised
Returned(out) == out \in {"path", "None"}

\* the submit_task call a 'tts' handler makes through generate_audio
HandlerSubmits(task) ==
    /\ task.type = "tts"
    /\ task.payload # "missing"
    /\ GenerateAudioSubmits(task.payload)

\* lines 91-96 run to their end: the handler returns or raises.  Until this
\* step the thread is inside the handler, for as long as the handler takes.
WorkerHandler(t) ==
    /\ t.pc = "handler"
    /\ LET task == t.task IN
       /\ \E out \in HandlerOutcomes(task) :
            threads' = Step(t, [t EXCEPT
                                  !.pc = IF Returned(out) THEN "set_result"
                                         ELSE "fail_result",
                                  !.out = out])
       /\ IF HandlerSubmits(task)
          THEN /\ Len(returned) < load.tasks
               /\ \E addr \in Addrs :
                    /\ FirstUse(addr)
                    /\ task_queue' = Append(task_queue,
                           SubmittedTask("tts", task.payload, addr))
                    /\ returned' = Append(returned,
                           [task_id |-> SubmitTaskId("tts", addr),
                            by |-> "worker"])
          ELSE UNCHANGED <<task_queue, returned>>
    /\ UNCHANGED <<results, processing, running, starters, now,
                   ticks, poll, load, callers>>

\* line 98: self.results[task_id] = {'success': True, 'result': result}
WorkerSetResult(t) ==
    /\ t.pc = "set_result"
    /\ results' = Put(results, t.task.task_id,
                      SuccessResult(t.out))
    /\ threads' = Goto(t, "set_status")
    /\ UNCHANGED <<task_queue, processing, running, starters,
                   now, ticks, returned, load, callers>>
    /\ poll' = Observe(poll, processing', results')

\* a KeyError inside the try block: on to the except clause at line 103
Raise(t, err) == Step(t, [t EXCEPT !.pc = "fail_result", !.out = err])

\* line 99: self.processing[task_id]['status'] = 'completed'
WorkerSetStatus(t) ==
    /\ t.pc = "set_status"
    /\ LET k == t.task.task_id IN
         IF HasKey(processing, k)
         THEN /\ processing' = [processing EXCEPT
                                  ![IndexOf(processing, k)].status = "completed"]
              /\ threads' = Goto(t, "set_time")
         ELSE /\ threads' = Raise(t, "KeyError")
              /\ UNCHANGED processing
    /\ UNCHANGED <<task_queue, results, running, starters, now,
                   ticks, returned, load, callers>>
    /\ poll' = Observe(poll, processing', results')

\* line 100: self.processing[task_id]['completed_at'] = time.time();
\* then task_done() and the next pass
WorkerSetTime(t) ==
    /\ t.pc = "set_time"
    /\ LET k == t.task.task_id IN
         IF HasKey(processing, k)
         THEN /\ processing' = [processing EXCEPT
                                  ![IndexOf(processing, k)].completed_at = now]
              /\ threads' = ToLoop(t)
         ELSE /\ threads' = Raise(t, "KeyError")
              /\ UNCHANGED processing
    /\ UNCHANGED <<task_queue, results, running, starters, now,
                   ticks, returned, poll, load, callers>>

\* line 105: self.results[task_id] = {'success': False, 'error': str(e)}
WorkerFailResult(t) ==
    /\ t.pc = "fail_result"
    /\ results' = Put(results, t.task.task_id,
                      FailureResult(t.out))
    /\ threads' = Goto(t, "fail_status")
    /\ UNCHANGED <<task_queue, processing, running, starters,
                   now, ticks, returned, load, callers>>
    /\ poll' = Observe(poll, processing', results')

\* an except clause that stores the failure result and no status
WorkerFailStatus_NoStatus(t) ==
    /\ t.pc = "fail_status"
    /\ threads' = ToLoop(t)
    /\ UNCHANGED <<task_queue, results, processing, running, starters, now,
                   ticks, returned, load, callers>>
    /\ poll' = Observe(poll, processing', results')

\* lines 106-107: status 'failed' and the error string; a KeyError here
\* leaves _process_task and ends the pass at line 59
WorkerFailStatus(t) ==
    /\ t.pc = "fail_status"
    /\ LET k == t.task.task_id IN
         IF HasKey(processing, k)
         THEN processing' = [processing EXCEPT
                               ![IndexOf(processing, k)].status = "failed",
                               ![IndexOf(processing, k)].error = t.out]
         ELSE UNCHANGED processing
    /\ threads' = ToLoop(t)
    /\ UNCHANGED <<task_queue, results, running, starters, now,
                   ticks, returned, load, callers>>
    /\ poll' = Observe(poll, processing', results')

\* -------------------------------------------- AsyncProcessor.get_task_status
PollTargets == {returned[i].task_id : i \in 1..Len(returned)} \cup {UnknownId}

Return(k, status, has_result, result) ==
    [IdlePoll EXCEPT !.ret = [task_id |-> k, status |-> status,
                              has_result |-> has_result, result |-> result,
                              obj |-> IF status \in {"not_found", "raised"}
                                      THEN "none" ELSE poll.obj,
                              torn |-> /\ status \notin {"not_found", "raised"}
                                       /\ <<status, has_result>> \notin poll.held]]

\* line 148: the call is entered; an absent key returns {'status': 'not_found'}
PollEnter(k) ==
    IF HasKey(processing, k)
    THEN [pc |-> "copy", task_id |-> k, status |-> "none",
          held |-> {Snapshot(processing, results, k)}, obj |-> "none",
          ret |-> NoRet]
    ELSE Return(k, "not_found", FALSE, FailureResult(NoVal))

\* line 148: a caller enters get_task_status(k); an absent key returns
\* {'status': 'not_found'}
PollCall(k) ==
    /\ load.polls
    /\ poll.pc = "idle"
    /\ waiter.pc # "status"
    /\ poll' = PollEnter(k)
    /\ UNCHANGED <<task_queue, results, processing, running,
                   threads, starters, now, ticks, returned, load, callers>>

\* a line 151 without .copy(): the caller gets the stored dict
EntryCopy_Same(d, k) == "stored"

\* line 151: .copy() makes a new dict; the values of an entry are strings
\* and floats, so nothing of the stored dict is reachable from the copy
EntryCopy(d, k) == "copy"

\* line 151: status = self.processing[task_id].copy(); KeyError when the key
\* has been deleted since line 148
PollCopy ==
    /\ poll.pc = "copy"
    /\ poll' = IF HasKey(processing, poll.task_id)
               THEN [poll EXCEPT !.pc = "test",
                                 !.status = Entry(processing, poll.task_id).status,
                                 !.obj = EntryCopy(processing, poll.task_id)]
               ELSE Return(poll.task_id, "raised", FALSE, FailureResult(NoVal))
    /\ UNCHANGED <<task_queue, results, processing, running,
                   threads, starters, now, ticks, returned, load, callers>>

\* line 154: if task_id in self.results; without a result the copy is returned
PollTest ==
    /\ poll.pc = "test"
    /\ poll' = IF poll.task_id \in DOMAIN results
               THEN [poll EXCEPT !.pc = "read"]
               ELSE Return(poll.task_id, poll.status, FALSE, FailureResult(NoVal))
    /\ UNCHANGED <<task_queue, results, processing, running,
                   threads, starters, now, ticks, returned, load, callers>>

\* lines 155-157: status['result'] = self.results[task_id]; return status
PollRead ==
    /\ poll.pc = "read"
    /\ poll' = IF poll.task_id \in DOMAIN results
               THEN Return(poll.task_id, poll.status, TRUE, results[poll.task_id])
               ELSE Return(poll.task_id, "raised", FALSE, FailureResult(NoVal))
    /\ UNCHANGED <<task_queue, results, processing, running,
                   threads, starters, now, ticks, returned, load, callers>>

\* A caller assigns to a key of the dict get_task_status returned
\* (status['status'] = ...).  The assignment reaches the store only when
\* the dict is the stored one.
MutateReturned ==
    /\ load.polls
    /\ poll.pc = "idle"
    /\ poll.ret.status \in {"processing", "completed", "failed"}
    /\ poll' = [poll EXCEPT !.ret.status = "mutated"]
    /\ LET k == poll.ret.task_id IN
         processing' =
             IF poll.ret.obj = "stored" /\ HasKey(processing, k)
             THEN [processing EXCEPT ![IndexOf(processing, k)].status = "mutated"]
             ELSE processing
    /\ UNCHANGED <<task_queue, results, running, threads, starters, now, ticks,
                   returned, load, callers>>

\* -------------------------------------------- AsyncProcessor.get_queue_stats
\* line 162: a caller enters get_queue_stats() and reads task_queue.qsize()
StatsCall ==
    /\ load.stats
    /\ stats.pc = "idle"
    /\ stats' = [IdleStats EXCEPT !.pc = "values",
                                  !.queue_size = Len(task_queue)]
    /\ UNCHANGED <<task_queue, results, processing, running, threads, starters,
                   now, ticks, returned, poll, load, waiter, audio, retry>>

\* lines 163 and 65: _get_active_count begins to iterate over
\* self.processing.values(); the iterator remembers the size of the dict
StatsIterBegin ==
    /\ stats.pc = "values"
    /\ stats' = [stats EXCEPT !.pc = "sum", !.size = Len(processing)]
    /\ UNCHANGED <<task_queue, results, processing, running, threads, starters,
                   now, ticks, returned, poll, load, waiter, audio, retry>>

\* line 65: the sum over the entries that are 'processing'; a dict whose
\* size changed under the iterator raises RuntimeError, which leaves
\* get_queue_stats
StatsSum ==
    /\ stats.pc = "sum"
    /\ stats' = IF Len(processing) # stats.size
                THEN [IdleStats EXCEPT !.ret = [NoStats EXCEPT !.kind = "raised"]]
                ELSE [stats EXCEPT !.pc = "len", !.size = 0,
                                   !.active_tasks = GetActiveCount(processing)]
    /\ UNCHANGED <<task_queue, results, processing, running, threads, starters,
                   now, ticks, returned, poll, load, waiter, audio, retry>>

\* lines 161-166: len(self.processing) and max_concurrent_tasks are read and
\* the dict is returned
StatsLen ==
    /\ stats.pc = "len"
    /\ stats' = [IdleStats EXCEPT !.ret =
                    [kind |-> "dict", queue_size |-> stats.queue_size,
                     active_tasks |-> stats.active_tasks,
                     total_tasks |-> Len(processing),
                     max_concurrent |-> max_concurrent_tasks]]
    /\ UNCHANGED <<task_queue, results, processing, running, threads, starters,
                   now, ticks, returned, poll, load, waiter, audio, retry>>

\* ------------------------------------------------------ tts.generate_audio
\* A text, as far as generate_audio looks at it: its length and the length
\* of text.strip().  The empty text, a text of white space only, a text one
\* character short of MIN_ARTICLE_LENGTH and a text of that length.
Texts ==
    { [len |-> 0, stripped |-> 0],
      [len |-> MIN_ARTICLE_LENGTH + 1, stripped |-> 0],
      [len |-> MIN_ARTICLE_LENGTH - 1, stripped |-> MIN_ARTICLE_LENGTH - 1],
      [len |-> MIN_ARTICLE_LENGTH, stripped |-> MIN_ARTICLE_LENGTH] }

\* line 204: if not text or len(text.strip()) == 0
EmptyText(text) == text.len = 0 \/ text.stripped = 0

\* the mutation of line 209 that lets every length pass
TooShort_Never(text) == FALSE

\* line 209: if len(text) < Config.MIN_ARTICLE_LENGTH
TooShort(text) == text.len < MIN_ARTICLE_LENGTH

\* A foreground caller runs generate_audio(text, gender, language): None
\* (NoId in audio.ret) for a text that fails one of the two tests, else the
\* id of the 'tts' task it submits (lines 217-225).
GenerateAudio(text, addr) ==
    /\ load.waits
    /\ IF EmptyText(text) \/ TooShort(text)
       THEN /\ audio' = [called |-> TRUE, text |-> text, ret |-> NoId]
            /\ UNCHANGED <<task_queue, returned>>
       ELSE /\ Len(returned) < load.tasks
            /\ FirstUse(addr)
            /\ task_queue' = Append(task_queue, SubmittedTask("tts", "valid", addr))
            /\ returned' = Append(returned,
                             [task_id |-> SubmitTaskId("tts", addr), by |-> "caller"])
            /\ audio' = [called |-> TRUE, text |-> text,
                          ret |-> SubmitTaskId("tts", addr)]
    /\ UNCHANGED <<results, processing, running, threads, starters, now, ticks,
                   poll, load, waiter, retry, stats>>

\* ---------------------------------------------------- tts.get_audio_result
\* the value get_audio_result returns, and the return statement it left by
WaiterReturn(branch, value) ==
    [waiter EXCEPT !.pc = "done", !.branch = branch, !.ret = value]

\* what generate_audio can have handed the caller: an id, or None
WaitTargets == {returned[i].task_id : i \in 1..Len(returned)} \cup {NoId}

\* lines 247-255: a caller enters get_audio_result(k) with the default
\* timeout; k is an id submit_task returned, or None
GetAudioResultCall(k) ==
    /\ load.waits
    /\ waiter.pc = "idle"
    /\ poll.pc = "idle"
    /\ waiter' = IF k = NoId
                 THEN WaiterReturn("no_task_id", "None")
                 ELSE [waiter EXCEPT !.pc = "while", !.task_id = k,
                                     !.start_time = now]
    /\ UNCHANGED <<task_queue, results, processing, running, threads, starters,
                   now, ticks, returned, poll, load, audio, retry, stats>>

\* line 257: while time.time() - start_time < timeout; inside the window
\* line 259 calls get_task_status, past it lines 300-303 return None
GetAudioResultPoll ==
    /\ waiter.pc = "while"
    /\ poll.pc = "idle"
    /\ IF now - waiter.start_time < DefaultTimeout * MsPerSecond
       THEN /\ poll' = PollEnter(waiter.task_id)
            /\ waiter' = [waiter EXCEPT !.pc = "status"]
       ELSE /\ waiter' = WaiterReturn("timeout", "None")
            /\ UNCHANGED poll
    /\ UNCHANGED <<task_queue, results, processing, running, threads, starters,
                   now, ticks, returned, load, audio, retry, stats>>

\* lines 267-284: the branch for 'completed'.  Without a 'result' key the
\* result is {}, which has no 'success'.
CompletedBranch(ret) ==
    IF ret.has_result /\ ret.result.success
    THEN IF ret.result.result \notin {"None", NoVal}
         THEN WaiterReturn("audio_ready", ret.result.result)
         ELSE WaiterReturn("file_missing", "None")
    ELSE WaiterReturn("not_success", "None")

\* lines 262-298: get_task_status has returned (or raised, and the
\* exception leaves get_audio_result); every status but 'processing' ends
\* the wait, 'processing' sleeps half a second and goes round
GetAudioResultStatus ==
    /\ waiter.pc = "status"
    /\ poll.pc = "idle"
    /\ waiter' = CASE poll.ret.status = "completed" -> CompletedBranch(poll.ret)
                   [] poll.ret.status = "failed" -> WaiterReturn("failed", "None")
                   [] poll.ret.status = "not_found" -> WaiterReturn("not_found", "None")
                   [] poll.ret.status = "raised" -> WaiterReturn("raised", NoVal)
                   [] OTHER -> [waiter EXCEPT !.pc = "while"]
    /\ UNCHANGED <<task_queue, results, processing, running, threads, starters,
                   now, ticks, returned, poll, load, audio, retry, stats>>

\* ------------------------------------------------------ retry_with_backoff
\* The wrapped operation is a coroutine function that fails (raises an
\* Exception) on its first `fails` calls and returns a value afterwards, or
\* fails on every call.  The error of call n is told apart from the others
\* by n.
Operations ==
    [always : {FALSE}, fails : 0..MaxFails] \cup [always : {TRUE}, fails : {0}]

OpFails(op, n) == op.always \/ n <= op.fails
\* what the operation returns when it succeeds
OpValue == 1

\* line 250: delay = initial_delay, on entry to the wrapper
RetryCall(max_retries, initial_delay, op) ==
    [NoRetry EXCEPT !.pc = "for", !.max_retries = max_retries,
                    !.initial_delay = initial_delay, !.op = op,
                    !.delay = initial_delay]

RetryCalls ==
    {RetryCall(m, d, op) : m \in (0 - 1)..MaxRetries, d \in 0..MaxDelay,
                           op \in Operations}

\* the wrapper returns (a value, or None off the end of the loop) or raises
RetryReturn(r, kind, value) ==
    [r EXCEPT !.pc = "done", !.ret = [kind |-> kind, value |-> value]]

\* line 251: for attempt in range(max_retries); past the last attempt the
\* function ends and returns None
RetryFor ==
    /\ retry.pc = "for"
    /\ retry' = IF retry.attempt < retry.max_retries
                THEN [retry EXCEPT !.pc = "try"]
                ELSE RetryReturn(retry, "None", 0)
    /\ UNCHANGED <<task_queue, results, processing, running, threads, starters,
                   now, ticks, returned, poll, load, waiter, audio, stats>>

\* line 253: return await func(*args, **kwargs)
RetryTry ==
    /\ retry.pc = "try"
    /\ LET n == retry.calls + 1 IN
         retry' = IF OpFails(retry.op, n)
                  THEN [retry EXCEPT !.pc = "except", !.calls = n, !.e = n]
                  ELSE RetryReturn([retry EXCEPT !.calls = n], "value", OpValue)
    /\ UNCHANGED <<task_queue, results, processing, running, threads, starters,
                   now, ticks, returned, poll, load, waiter, audio, stats>>

\* the mutation of line 255 that never takes the attempt for the last one
IsLastAttempt_Never(attempt, max_retries) == FALSE

\* line 255: if attempt == max_retries - 1
IsLastAttempt(attempt, max_retries) == attempt = max_retries - 1

\* lines 254-256: the except clause; on the last attempt `raise e`
RetryExcept ==
    /\ retry.pc = "except"
    /\ retry' = IF IsLastAttempt(retry.attempt, retry.max_retries)
                THEN RetryReturn(retry, "raised", retry.e)
                ELSE [retry EXCEPT !.pc = "sleep"]
    /\ UNCHANGED <<task_queue, results, processing, running, threads, starters,
                   now, ticks, returned, poll, load, waiter, audio, stats>>

\* the mutation of line 260 that keeps the delay as it is
NextDelay_Same(delay) == delay

\* line 260: delay *= 2
NextDelay(delay) == delay * 2

\* lines 259-260: await asyncio.sleep(delay); delay *= 2; then the next
\* round of the loop
RetrySleep ==
    /\ retry.pc = "sleep"
    /\ retry' = [retry EXCEPT !.pc = "for",
                              !.delays = Append(retry.delays, retry.delay),
                              !.delay = NextDelay(retry.delay),
                              !.attempt = retry.attempt + 1]
    /\ UNCHANGED <<task_queue, results, processing, running, threads, starters,
                   now, ticks, returned, poll, load, waiter, audio, stats>>

\* ------------------------------------------------------------------ Next
Next ==
    \/ \E type \in load.types : \E payload \in Payloads(type) : \E addr \in Addrs :
         SubmitTask(type, payload, addr)
    \/ StartCheck
    \/ StartThread
    \/ Stop
    \/ \E d \in TickSteps : Tick(d)
    \/ \E t \in BagToSet(threads) : WorkerLoop(t)
    \/ \E t \in BagToSet(threads) : WorkerScanBegin(t)
    \/ \E t \in BagToSet(threads) : WorkerScan(t)
    \/ \E t \in BagToSet(threads) : WorkerDelProcessing(t)
    \/ \E t \in BagToSet(threads) : WorkerTestResults(t)
    \/ \E t \in BagToSet(threads) : WorkerDelResults(t)
    \/ \E t \in BagToSet(threads) : WorkerCheck(t)
    \/ \E t \in BagToSet(threads) : WorkerGet(t)
    \/ \E t \in BagToSet(threads) : WorkerStart(t)
    \/ \E t \in BagToSet(threads) : WorkerHandler(t)
    \/ \E t \in BagToSet(threads) : WorkerSetResult(t)
    \/ \E t \in BagToSet(threads) : WorkerSetStatus(t)
    \/ \E t \in BagToSet(threads) : WorkerSetTime(t)
    \/ \E t \in BagToSet(threads) : WorkerFailResult(t)
    \/ \E t \in BagToSet(threads) : WorkerFailStatus(t)
    \/ \E k \in PollTargets : PollCall(k)
    \/ PollCopy
    \/ PollTest
    \/ PollRead
    \/ MutateReturned
    \/ StatsCall
    \/ StatsIterBegin
    \/ StatsSum
    \/ StatsLen
    \/ \E text \in Texts : \E addr \in Addrs : GenerateAudio(text, addr)
    \/ \E k \in WaitTargets : GetAudioResultCall(k)
    \/ GetAudioResultPoll
    \/ GetAudioResultStatus

Spec == Init /\ [][Next]_vars

\* Every step of a thread running _worker.
WorkerNext ==
    \E t \in BagToSet(threads) :
        \/ WorkerLoop(t) \/ WorkerScanBegin(t) \/ WorkerScan(t)
        \/ WorkerDelProcessing(t) \/ WorkerTestResults(t) \/ WorkerDelResults(t)
        \/ WorkerCheck(t) \/ WorkerGet(t) \/ WorkerStart(t) \/ WorkerHandler(t)
        \/ WorkerSetResult(t) \/ WorkerSetStatus(t) \/ WorkerSetTime(t)
        \/ WorkerFailResult(t) \/ WorkerFailStatus(t)

\* The workloads with one worker thread and a clock that advances.
FairWorkloads == {w \in Workloads : w.threads = 1 /\ w.ticks > 0}
FairInit == InitWith(FairWorkloads)

\* The one worker thread is scheduled again and again (its sleeps and its
\* queue wait are bounded), and a handler it is in returns or raises.
FairSpec == FairInit /\ [][Next]_vars /\ WF_vars(WorkerNext)


\* A call of a retry_with_backoff wrapper, for every max_retries,
\* initial_delay and wrapped operation within the bounds; the processor is
\* not involved.
RetryNext == RetryFor \/ RetryTry \/ RetryExcept \/ RetrySleep

RetryInit == ProcessorInit({[tasks |-> 0, threads |-> 0, ticks |-> 0,
                             polls |-> FALSE, waits |-> FALSE,
                             stats |-> FALSE, types |-> {}]})
               /\ retry \in RetryCalls

RetrySpec == RetryInit /\ [][RetryNext]_vars


\* ================================================================ claims
\* what get_task_status(k) reads at lines 148-151
StatusOf(k) ==
    IF HasKey(processing, k) THEN Entry(processing, k).status ELSE "not_found"
Terminal(status) == status \in {"completed", "failed"}
\* every id the stores or the callers know
KnownIds == Keys(processing) \cup DOMAIN results
              \cup {returned[i].task_id : i \in 1..Len(returned)}

\* C1: the number of entries of `processing` with status 'processing' never
\* exceeds max_concurrent_tasks.
C1_ConcurrencyCeiling == GetActiveCount(processing) <= max_concurrent_tasks

\* C2: the status get_task_status reports for an id never goes back: from
\* 'processing' it goes to 'completed' or 'failed' only, and a terminal status
\* is followed by the same status or, after the purge, by 'not_found'.  (Each
\* call reports the status the store holds at line 151, so two calls can
\* report any two statuses the store holds one after the other.)
C2_MonotonicStatus ==
    [][\A k \in Keys(processing) :
         /\ StatusOf(k) = "processing"
              => StatusOf(k)' \in {"processing", "completed", "failed"}
         /\ Terminal(StatusOf(k))
              => StatusOf(k)' \in {StatusOf(k), "not_found"}]_vars

\* the tasks submitted and not yet stored by a worker at line 84: nothing
\* can have purged them
Pending ==
    {task_queue[i].task_id : i \in 1..Len(task_queue)}
      \cup {t.task.task_id : t \in {u \in BagToSet(threads) : u.pc = "start"}}

\* C3: from the return of submit_task until the purge, get_task_status(id)
\* never reports 'not_found': a task that waits in the queue is in the store.
C3_SubmittedIsTracked == \A k \in Pending : StatusOf(k) # "not_found"

\* C4: in every state, between any two statements of the worker, a task has
\* a result entry if and only if its status is 'completed' or 'failed'.
C4_ResultIffTerminal ==
    \A k \in KnownIds : (k \in DOMAIN results) <=> Terminal(StatusOf(k))

\* C5: a status dict returned by get_task_status with a terminal status
\* carries a result, and its success flag matches: True for 'completed',
\* False for 'failed'.
C5_ResultMatchesStatus ==
    Terminal(poll.ret.status) =>
        /\ poll.ret.has_result
        /\ poll.ret.result.success = (poll.ret.status = "completed")

\* C6: a handler that raises or returns a falsy value leaves its task
\* 'failed' with success False; a task is 'completed' only with a non-empty
\* handler output.
C6_FalsyOutputFails ==
    \A k \in Keys(processing) :
        (StatusOf(k) = "completed" /\ k \in DOMAIN results /\ results[k].success)
            => results[k].result \notin {"None", NoVal}

\* C8: the ids submit_task returns are pairwise distinct.
C8_UniqueIds ==
    \A i, j \in 1..Len(returned) :
        i # j => returned[i].task_id # returned[j].task_id

\* C9: get_task_status never raises, also when the cleanup sweep deletes the
\* id while the call runs.
C9_StatusNeverRaises == poll.ret.status # "raised"


\* C7: a task of an unrecognized type is never 'completed'; once dispatched
\* it is 'failed' with the message of the dispatch error as its result
\* (first conjunct), and no worker thread ends on it: a thread leaves the
\* loop only by reading running as False (second conjunct), so it goes on
\* to take the tasks submitted afterwards.
C7_UnknownTypeFails ==
    /\ [](\A i \in 1..Len(processing) :
            processing[i].task_type \notin {"tts", "video"} =>
              /\ processing[i].status # "completed"
              /\ processing[i].status = "failed" =>
                   /\ processing[i].error = "UnknownType"
                   /\ processing[i].task_id \in DOMAIN results
                   /\ results[processing[i].task_id] = FailureResult("UnknownType"))
    /\ [][Live' < Live => ~running]_vars

\* a 'bogus' task has failed with the dispatch error, and a 'video' task
\* submitted after it has been taken by the same loop and completed
C7_Witness ==
    \E i, j \in 1..Len(returned) :
        /\ i < j
        /\ returned[i].task_id[1] = "bogus"
        /\ StatusOf(returned[i].task_id) = "failed"
        /\ returned[i].task_id \in DOMAIN results
        /\ results[returned[i].task_id] = FailureResult("UnknownType")
        /\ returned[j].task_id[1] = "video"
        /\ StatusOf(returned[j].task_id) = "completed"
        /\ Live > 0

\* the first id a caller can get for a 'video' task
FirstVideoId == MakeTaskId("video", 0, 1)
\* the entry of k is due for removal / k is in neither store
Due(k) == HasKey(processing, k) /\ ShouldRemove(Entry(processing, k), now)
Gone(k) == ~HasKey(processing, k) /\ k \notin DOMAIN results
\* k has completed again and is not due yet
Fresh(k) ==
    /\ StatusOf(k) = "completed"
    /\ ~ShouldRemove(Entry(processing, k), now)
\* a handler that cannot return within the bound on submit_task calls
HandlerBlocked ==
    \E t \in BagToSet(threads) :
        t.pc = "handler" /\ HandlerSubmits(t.task) /\ Len(returned) >= load.tasks

\* C10: while a worker loop runs, a task that completed more than the
\* retention window ago is eventually in neither `processing` nor `results`.
\* Stated for the id FirstVideoId; a run in which no worker thread is left,
\* in which the id has completed anew and the clock of the model has
\* stopped, or in which a handler never returns, does not count against it.
C10_RetentionPurges ==
    \/ [](Due(FirstVideoId) =>
            <>(Gone(FirstVideoId) \/ Live = 0 \/ Fresh(FirstVideoId)))
    \/ <>[]HandlerBlocked

\* 2^n
RECURSIVE Pow2(_)
Pow2(n) == IF n = 0 THEN 1 ELSE 2 * Pow2(n - 1)

\* C13: a wrapper with max_retries = N >= 1 around an operation that fails
\* on every call has, when it ends, called the operation N times and slept
\* N - 1 times, and it ends by raising the error of the N-th call.
C13_AlwaysFailing ==
    (retry.pc = "done" /\ retry.op.always /\ retry.max_retries >= 1) =>
        /\ retry.calls = retry.max_retries
        /\ Len(retry.delays) = retry.max_retries - 1
        /\ retry.ret = [kind |-> "raised", value |-> retry.max_retries]

\* three failing calls, two sleeps, and the third error raised
C13_Witness ==
    /\ retry.pc = "done"
    /\ retry.op.always
    /\ retry.max_retries = MaxRetries
    /\ retry.calls = MaxRetries
    /\ Len(retry.delays) = MaxRetries - 1
    /\ retry.ret.kind = "raised"

\* C14: a wrapper around an operation that fails k < max_retries times and
\* then succeeds returns the value of call k + 1, which is its last call,
\* and has slept k times, for initial_delay * 2^(i-1) seconds the i-th
\* time: every delay is twice the one before it and none is shorter.
C14_BackoffDoubles ==
    (retry.pc = "done" /\ ~retry.op.always /\ retry.op.fails < retry.max_retries) =>
        /\ retry.ret = [kind |-> "value", value |-> OpValue]
        /\ retry.calls = retry.op.fails + 1
        /\ Len(retry.delays) = retry.op.fails
        /\ \A i \in 1..Len(retry.delays) :
             retry.delays[i] = retry.initial_delay * Pow2(i - 1)
        /\ \A i \in 2..Len(retry.delays) :
             /\ retry.delays[i] = 2 * retry.delays[i - 1]
             /\ retry.delays[i] >= retry.delays[i - 1]

\* two failures and then the value, after sleeps of d and 2d seconds, d > 0
C14_Witness ==
    /\ retry.pc = "done"
    /\ retry.op = [always |-> FALSE, fails |-> 2]
    /\ retry.max_retries = MaxRetries
    /\ retry.ret.kind = "value"
    /\ retry.initial_delay > 0
    /\ retry.delays = <<retry.initial_delay, 2 * retry.initial_delay>>

\* the first id a caller can get for a task of an unknown type
FirstBogusId == MakeTaskId("bogus", 0, 1)
\* more than the retention window has passed since the clock read 0
WindowPassed == now > Retention * MsPerSecond

\* C11: while a worker loop runs, a task that failed more than the
\* retention window ago is eventually in neither `processing` nor `results`.
\* Stated for the id FirstBogusId, failed while the clock reads 0; a run in
\* which no worker thread is left, in which the id is taken up again, or in
\* which a handler never returns, does not count against it.
C11_FailedIsReaped ==
    \/ []((StatusOf(FirstBogusId) = "failed" /\ now = 0) =>
            [](WindowPassed =>
                 <>(\/ Gone(FirstBogusId)
                    \/ Live = 0
                    \/ StatusOf(FirstBogusId) # "failed")))
    \/ <>[]HandlerBlocked

\* the id was returned by exactly one submit_task call
Once(k) == Cardinality({i \in 1..Len(returned) : returned[i].task_id = k}) = 1

\* C12: tasks enter 'processing' in the order of their submit_task calls:
\* when a task has been stored at line 84, so has every task submitted
\* before it.  (Stated for ids that name one task each.)
C12_StartOrder ==
    \A i, j \in 1..Len(returned) :
        (/\ i < j
         /\ Once(returned[i].task_id)
         /\ Once(returned[j].task_id)
         /\ returned[j].task_id \notin Pending)
            => returned[i].task_id \notin Pending

\* the thread t runs the except clause of _process_task (lines 103-107)
Fails(t) == WorkerFailResult(t) \/ WorkerFailStatus(t)
\* the ids of the tasks other than the one t has in hand: every other id,
\* and the id of t's task too when a second task was given the same id
OtherIds(t) == {k \in KnownIds : k # t.task.task_id \/ ~Once(k)}
\* what get_task_status(k) reads at lines 154-155
ResultOf(k) == IF k \in DOMAIN results THEN results[k] ELSE FailureResult(NoVal)

\* C15: a step of the except clause of _process_task changes the status and
\* the result of no task but the one that failed, it leaves that task
\* 'failed' with the error string in its entry and in its result, and the
\* thread stays in the loop.
C15_FailureContained ==
    [][\A t \in BagToSet(threads) :
         Fails(t) =>
           /\ Live' = Live
           /\ \A k \in OtherIds(t) :
                /\ StatusOf(k)' = StatusOf(k)
                /\ (k \in DOMAIN results') = (k \in DOMAIN results)
                /\ ResultOf(k)' = ResultOf(k)
           /\ WorkerFailStatus(t) =>
                /\ StatusOf(t.task.task_id)' = "failed"
                /\ Entry(processing, t.task.task_id)'.error = t.out
                /\ ResultOf(t.task.task_id)' = FailureResult(t.out)]_vars

\* C16: the 'tts' task that generate_audio submitted for a valid text ends
\* 'completed' with the result {'success': True, 'result': <path of the
\* audio file>}, so it never is 'failed', no other result is ever stored
\* for it, and a get_audio_result call that sees it in a terminal status
\* returns the path.
C16_TtsCompletes ==
    (audio.called /\ audio.ret # NoId) =>
        /\ StatusOf(audio.ret) # "failed"
        /\ audio.ret \in DOMAIN results => results[audio.ret] = SuccessResult("path")
        /\ (/\ waiter.pc = "done"
            /\ waiter.task_id = audio.ret
            /\ waiter.branch \notin {"timeout", "not_found"})
              => waiter.ret = "path"

\* the task k waits in the queue or is being processed
Unfinished(k) == k \in Pending \/ StatusOf(k) = "processing"

\* C17: get_audio_result leaves its polling loop before the timeout only
\* for a task it has seen in a terminal status: a step that ends the wait on
\* the answer of get_task_status ends it on 'completed' or 'failed', or for
\* a task that is neither queued nor being processed.
C17_PollsUntilTerminal ==
    [][(GetAudioResultStatus /\ waiter'.pc = "done") =>
         (Terminal(poll.ret.status) \/ ~Unfinished(waiter.task_id))]_vars

\* C18: the status and the presence of a result that a call of
\* get_task_status returns are a pair the stores held for the id at one
\* instant between the entry of the call and its return.
C18_ConsistentSnapshot == ~poll.ret.torn

\* C19, as it holds with one worker thread: with the loop running and
\* handlers that return or raise, a task that waits in the queue or is
\* being processed eventually has a terminal status.  Stated for the id
\* FirstVideoId; a run in which no worker thread is left, or in which a
\* handler never returns, does not count against it.
C19_EveryTaskFinishes ==
    \/ [](Unfinished(FirstVideoId) =>
            <>(Terminal(StatusOf(FirstVideoId)) \/ Live = 0))
    \/ <>[]HandlerBlocked

\* the thread t is inside the try block of _process_task and has not yet
\* written the status of its task (lines 90-99)
InHand(t) == t.pc \in {"handler", "set_result", "set_status"}

\* C19: a task that entered 'processing' is not dropped: while its handler
\* runs and until line 99 stores its status, the task has its entry in
\* `processing`.  (Without the entry lines 99 and 106 both raise KeyError
\* and the task never gets a terminal status.)
C19_NeverDropped ==
    \A t \in BagToSet(threads) : InHand(t) => HasKey(processing, t.task.task_id)

\* C20: a call of generate_audio with an empty text, a text of white space
\* only or a text shorter than MIN_ARTICLE_LENGTH returns None and leaves the
\* queue, both stores and the ids handed out as they were.
C20_MalformedIsRejected ==
    [][\A text \in Texts : \A addr \in Addrs :
         (GenerateAudio(text, addr)
            /\ (text.len = 0 \/ text.stripped = 0 \/ text.len < MIN_ARTICLE_LENGTH))
           => /\ audio'.ret = NoId
              /\ UNCHANGED <<task_queue, processing, results, returned>>]_vars

\* generate_audio has returned None for a text one character short, with
\* nothing queued or stored
C20_Witness ==
    /\ audio.called
    /\ audio.text = [len |-> MIN_ARTICLE_LENGTH - 1, stripped |-> MIN_ARTICLE_LENGTH - 1]
    /\ audio.ret = NoId
    /\ task_queue = <<>>
    /\ processing = <<>>
    /\ returned = <<>>

\* C30: for every max_retries, zero and negative ones too, a wrapper that
\* has ended has returned the value of a call of the operation that
\* succeeded, or raised the error of a call that failed.
C30_RetryNeverReturnsEmpty ==
    retry.pc = "done" =>
        \/ /\ retry.ret = [kind |-> "value", value |-> OpValue]
           /\ retry.calls >= 1
           /\ ~OpFails(retry.op, retry.calls)
        \/ /\ retry.ret.kind = "raised"
           /\ retry.ret.value \in 1..retry.calls
           /\ OpFails(retry.op, retry.ret.value)

\* C26: processing a task enqueues no task: every id that was created by
\* submit_task was returned to a foreground caller.
C26_OnlyCallersEnqueue ==
    \A i \in 1..Len(returned) : returned[i].by = "caller"

\* C27: at most one thread runs _worker.
C27_SingleWorker == Live <= 1

\* C23: every entry with a terminal status, 'failed' as well as
\* 'completed', has a finish time, and it is not before started_at.
C23_FinishTimeRecorded ==
    \A i \in 1..Len(processing) :
        Terminal(processing[i].status) =>
            /\ processing[i].completed_at # NoTime
            /\ processing[i].completed_at >= processing[i].started_at

\* C28: while running is False no task enters 'processing', and no task
\* leaves the queue.
C28_StoppedStartsNothing ==
    [][(~running /\ ~running') =>
         /\ \A t \in BagToSet(threads) : ~WorkerStart(t)
         /\ \A t \in BagToSet(threads) : ~(WorkerGet(t) /\ task_queue' # task_queue)]_vars

\* C29: with a single worker thread at most one entry is 'processing', and
\* a task becomes 'processing' only when every entry stored before it is in
\* a terminal status, whatever max_concurrent_tasks is.
C29_SerialExecution ==
    [][load.threads = 1 =>
         /\ GetActiveCount(processing') <= 1
         /\ \A t \in BagToSet(threads) :
              WorkerStart(t) =>
                  \A i \in 1..Len(processing) : Terminal(processing[i].status)]_vars

\* one worker has finished a task and is inside the handler of the next
C29_Witness ==
    /\ load.threads = 1
    /\ max_concurrent_tasks = 2
    /\ \E i, j \in 1..Len(processing) :
         /\ Terminal(processing[i].status)
         /\ processing[j].status = "processing"
    /\ \E t \in BagToSet(threads) : t.pc = "handler"

\* the number of threads whose position is one of pcs
AtPc(pcs) ==
    BagCardinality([t \in {x \in DOMAIN threads : x.pc \in pcs} |-> threads[t]])

\* the positions of a thread that holds a task it has taken from the queue
TaskPcs == {"start", "handler", "set_result", "set_status", "set_time",
            "fail_result", "fail_status"}

\* C25: the scheduler makes one attempt per task.  A thread comes to hold a
\* task only by removing it from the head of the queue, a handler is entered
\* only by a thread that has just taken its task, and the queue grows only
\* by a submit_task call, never when a thread lets go of a task, whether
\* the handler returned or raised.
C25_OneAttempt ==
    [][/\ AtPc({"start"})' > AtPc({"start"}) =>
            /\ task_queue # <<>>
            /\ task_queue' = Tail(task_queue)
            /\ \E t \in BagToSet(threads') :
                 t.pc = "start" /\ t.task = Head(task_queue)
       /\ AtPc({"handler"})' > AtPc({"handler"}) =>
            AtPc({"start"})' < AtPc({"start"})
       /\ AtPc(TaskPcs)' > AtPc(TaskPcs) => AtPc({"start"})' > AtPc({"start"})
       /\ Len(task_queue') > Len(task_queue) =>
            /\ Len(returned') = Len(returned) + 1
            /\ AtPc(TaskPcs)' = AtPc(TaskPcs)]_vars

\* a handler returned for one task and raised for another, each taken once:
\* nothing is queued and no thread holds a task
C25_Witness ==
    /\ task_queue = <<>>
    /\ AtPc(TaskPcs) = 0
    /\ Len(returned) = 2
    /\ \E i, j \in 1..Len(processing) :
         /\ processing[i].status = "completed"
         /\ processing[j].status = "failed"

\* a terminal entry whose finish time is more than the retention before now
Purgeable(e) ==
    /\ Terminal(e.status)
    /\ e.completed_at # NoTime
    /\ now - e.completed_at > Retention * MsPerSecond

\* C22: no premature purge.  A step that removes the entry of a task removes
\* a terminal entry that finished more than 300 s before, never one that is
\* 'processing' or that finished 300 s ago or less, and no result is removed
\* while such an entry is stored under its id.
C22_NoPrematurePurge ==
    [][/\ \A i \in 1..Len(processing) :
            ~HasKey(processing', processing[i].task_id) =>
                Purgeable(processing[i])
       /\ \A k \in DOMAIN results :
            (k \notin DOMAIN results' /\ HasKey(processing, k)) =>
                Purgeable(Entry(processing, k))]_vars

\* the same with one worker thread: the thread that scans is the only one
\* that writes the stores, and what it removes is what line 73 selected
C22_OneWorker ==
    [][load.threads = 1 =>
       /\ \A i \in 1..Len(processing) :
            ~HasKey(processing', processing[i].task_id) =>
                Purgeable(processing[i])
       /\ \A k \in DOMAIN results :
            (k \notin DOMAIN results' /\ HasKey(processing, k)) =>
                Purgeable(Entry(processing, k))]_vars

\* C21: a call of get_queue_stats returns, and in what it returns the
\* number of active tasks is at most the limit and at most the number of
\* tracked tasks, and the limit is max_concurrent_tasks.
C21_QueueStats ==
    /\ stats.ret.kind # "raised"
    /\ stats.ret.kind = "dict" =>
         /\ stats.ret.active_tasks <= stats.ret.max_concurrent
         /\ stats.ret.active_tasks <= stats.ret.total_tasks
         /\ stats.ret.max_concurrent = max_concurrent_tasks

\* C24: the status API is read-only.  A step of get_task_status or of
\* get_queue_stats, and an assignment to the dict get_task_status returned,
\* leave the task queue, `processing` and `results` as they are.
C24_StatusApiReadOnly ==
    [][(poll.pc' # poll.pc \/ poll.ret' # poll.ret \/ stats' # stats) =>
          UNCHANGED <<task_queue, processing, results>>]_vars

\* a caller has changed the status in the dict it got for a stored task, and
\* the store still holds the status of the task
C24_Witness ==
    /\ poll.ret.status = "mutated"
    /\ poll.ret.obj = "copy"
    /\ HasKey(processing, poll.ret.task_id)
    /\ StatusOf(poll.ret.task_id) \in {"processing", "completed", "failed"}

====
